---------------------------- MODULE Spec2Model ----------------------------
(***************************************************************************)
(* A model of the two core parts of ethereumjs-devp2p:                     *)
(*   - the DPT discovery server (src/unnamed/part_000): ping / pong        *)
(*     correlation, timeouts, the dedup cache, inbound dispatch;           *)
(*   - the RLPx ECIES handshake and frame codec (src/es/rlpx/ecies.js).    *)
(* Time is counted in milliseconds, as the arguments of ms() in the source.*)
(***************************************************************************)
EXTENDS Integers, Sequences, FiniteSets, TLC

VARIABLES
  now,            \* Date.now(), in ms
  socket,         \* this._socket: "created", "bound", or "null" after destroy
  requests,       \* this._requests: Map rkey -> {peer, deferred, timeoutId}
  requestsCache,  \* this._requestsCache: LRU list, most recently used first
  deferreds,      \* the deferred and the timeout of every ping that was sent
  sent,           \* datagrams handed to this._socket.send, in order
  emitted,        \* events emitted by the server, in order
  peersTimers,    \* the setTimeout(..., ms('100ms')) callbacks of _handler
  handled,        \* inbound datagrams handled so far (other than pongs)
  last,           \* the most recent call or callback and its outcome
  ecies,          \* the ECIES instance of each end of a connection
  stage,          \* how far the owner of each instance is in the handshake
  wire,           \* wire[s]: the messages in flight to side s, in order
  written,        \* written[s]: the frames side s was asked to write
  parsed,         \* parsed[s]: what side s read, frame by frame or call by call
  eciesLast,      \* the most recent ECIES call and its outcome
  kdf             \* a call of concatKDF: its arguments and what it returned

dptVars == <<now, socket, requests, requestsCache, deferreds, sent, emitted,
             peersTimers, handled, last>>

eciesVars == <<ecies, stage, wire, written, parsed, eciesLast, kdf>>

vars == <<dptVars, eciesVars>>

-----------------------------------------------------------------------------
(* Bounds of the model *)

MaxPings == 2
MaxRecv == 2
MaxTime == 1500
MaxFind == 1
MaxHandlerTime == 100
MaxFrames == 3
MaxHandshakeFrames == 1
MaxTamperFrames == 2
MaxInFlight == 1
MaxAnyOrderFrames == 1

-----------------------------------------------------------------------------
(* Program constants *)

VERSION == 4
MAX_ENTRIES == 1000
MAX_AGE == 1000
DEFAULT_TIMEOUT == 10000
PEERS_DELAY == 100
NULL == 0

DEFAULT_ENDPOINT == [address |-> "0.0.0.0", udpPort |-> NULL, tcpPort |-> NULL]

\* secp256k1, scaled down to the multiplicative group modulo a small prime
CURVE_P == 23
CURVE_G == 5

-----------------------------------------------------------------------------
(* Keys *)

RECURSIVE PowMod(_, _)
PowMod(b, e) == IF e = 0 THEN 1 ELSE (b * PowMod(b, e - 1)) % CURVE_P

\* secp256k1.publicKeyCreate(privateKey, false): 0x04 || point
publicKeyCreate(privateKey) == [prefix |-> 4, point |-> PowMod(CURVE_G, privateKey)]

\* util.pk2id: the public key without its 0x04 prefix
pk2id(pk) == pk.point

\* util.id2pk: the id with the 0x04 prefix put back
id2pk(id) == [prefix |-> 4, point |-> id]

-----------------------------------------------------------------------------
(* Inputs of the discovery server *)

ServerKey == 3
RemoteKeys == {7, 11}

Peers == { [address |-> "10.0.0.1", udpPort |-> 30303, tcpPort |-> 30303],
           [address |-> "10.0.0.2", udpPort |-> 30304, tcpPort |-> NULL] }

RInfos == { [address |-> "10.0.0.1", port |-> 30303],
            [address |-> "10.0.0.9", port |-> 40000] }

Froms == { [address |-> "10.0.0.1", udpPort |-> 30303, tcpPort |-> 30303],
           [address |-> "10.0.0.5", udpPort |-> NULL, tcpPort |-> 30305] }

-----------------------------------------------------------------------------
(* message.encode / message.decode *)

\* hash(32) || signature(65) || packetType(1) || rlp(payload): the signature
\* is deterministic in (key, type, payload), and so is the hash over it
encode(typename, data, privateKey) ==
  [ hash      |-> [signer |-> privateKey, typename |-> typename, data |-> data],
    signature |-> privateKey,
    typename  |-> typename,
    data      |-> data ]

\* msg.slice(0, 32)
messageId(msg) == msg.hash

validMessage(msg) ==
  msg.hash = [signer |-> msg.signature, typename |-> msg.typename, data |-> msg.data]

decode(msg) ==
  [ typename |-> msg.typename, data |-> msg.data,
    publicKey |-> publicKeyCreate(msg.signature) ]

\* the payload that ping() hands to _send
pingData(endpoint, peer) == [version |-> VERSION, from |-> endpoint, to |-> peer]

\* the message id of the ping datagram that ping(peer) sends
pingHash(peer) == messageId(encode("ping", pingData(DEFAULT_ENDPOINT, peer), ServerKey))

BogusHash ==
  [signer |-> 0, typename |-> "ping", data |-> pingData(DEFAULT_ENDPOINT, DEFAULT_ENDPOINT)]

PongHashes == { pingHash(p) : p \in Peers } \cup { BogusHash }

InPings == { encode("ping", pingData(f, DEFAULT_ENDPOINT), 7) : f \in Froms }

InPongs ==
  { encode("pong", [to |-> DEFAULT_ENDPOINT, hash |-> h], k) : h \in PongHashes, k \in RemoteKeys }

TargetId == pk2id(publicKeyCreate(ServerKey))

InFindneighbours == { encode("findneighbours", [id |-> TargetId], 7) }

NeighbourList ==
  << [endpoint |-> [address |-> "10.0.0.7", udpPort |-> 30307, tcpPort |-> 30307],
      id |-> pk2id(publicKeyCreate(11))] >>

InNeighbours == { encode("neighbours", [peers |-> NeighbourList], 7) }

\* a datagram whose first 32 bytes are not the hash of the rest
InInvalid ==
  { [ hash |-> BogusHash, signature |-> 7, typename |-> "ping",
      data |-> pingData(DEFAULT_ENDPOINT, DEFAULT_ENDPOINT) ] }

\* this._dpt.getClosestPeers(id), the routing table's answer
getClosestPeers(id) == NeighbourList

-----------------------------------------------------------------------------
(* util.createDeferred and the timer of a ping request *)

NoPeer == [id |-> 0, address |-> "", udpPort |-> NULL, tcpPort |-> NULL]
NoError == [message |-> "", address |-> "", udpPort |-> NULL]

\* createDeferred() together with the setTimeout of ping(): one record per
\* ping that was sent
newRequest(peer, rkey, timeout, t) ==
  [ peer |-> peer, rkey |-> rkey, sentAt |-> t,
    state |-> "pending", value |-> NoPeer, reason |-> NoError,
    resolveCalls |-> 0, rejectCalls |-> 0,
    armed |-> TRUE, deadline |-> t + timeout ]

\* deferred.resolve(value): a promise keeps its first settlement
resolve(d, value) ==
  [d EXCEPT !.resolveCalls = @ + 1,
            !.state = IF d.state = "pending" THEN "resolved" ELSE @,
            !.value = IF d.state = "pending" THEN value ELSE @]

\* deferred.reject(err)
reject(d, err) ==
  [d EXCEPT !.rejectCalls = @ + 1,
            !.state = IF d.state = "pending" THEN "rejected" ELSE @,
            !.reason = IF d.state = "pending" THEN err ELSE @]

-----------------------------------------------------------------------------
(* lru-cache, as configured by DEFAULT_CACHE_OPTS *)

RECURSIVE lruFind(_, _)
lruFind(cache, key) ==
  IF cache = <<>> THEN 0
  ELSE IF Head(cache).key = key THEN 1
  ELSE LET r == lruFind(Tail(cache), key) IN IF r = 0 THEN 0 ELSE r + 1

lruRemove(cache, i) == SubSeq(cache, 1, i - 1) \o SubSeq(cache, i + 1, Len(cache))

\* a cache whose entries go stale one millisecond too early
isStale_Early(hit, t) == t - hit.now >= MAX_AGE

\* maxAge: an entry is stale once it is older than maxAge
isStale(hit, t) == t - hit.now > MAX_AGE

\* get(key): a stale hit is deleted and reads as undefined (stale: false),
\* a fresh hit moves to the front; value 0 stands for undefined
lruGet(cache, key, t) ==
  LET i == lruFind(cache, key) IN
  IF i = 0 THEN [cache |-> cache, value |-> 0]
  ELSE IF isStale(cache[i], t) THEN [cache |-> lruRemove(cache, i), value |-> 0]
  ELSE [cache |-> <<cache[i]>> \o lruRemove(cache, i), value |-> cache[i].value]

\* set(key, value): replaces or adds at the front, then trims to max entries
lruSet(cache, key, value, t) ==
  LET i == lruFind(cache, key)
      rest == IF i = 0 THEN cache ELSE lruRemove(cache, i)
      all == <<[key |-> key, value |-> value, now |-> t]>> \o rest
  IN IF Len(all) > MAX_ENTRIES THEN SubSeq(all, 1, MAX_ENTRIES) ELSE all

-----------------------------------------------------------------------------
(* The discovery server *)

\* options.timeout || DEFAULT_TIMEOUT and options.endpoint || DEFAULT_ENDPOINT
timeout == DEFAULT_TIMEOUT
endpoint == DEFAULT_ENDPOINT

\* `${peer.address}:${peer.udpPort}`
rckeyOf(peer) == <<peer.address, peer.udpPort>>

\* new Error(`Timeout error: ping ${peer.address}:${peer.udpPort}`)
timeoutError(peer) ==
  [message |-> "Timeout error: ping", address |-> peer.address, udpPort |-> peer.udpPort]

destroyedError == "Server already destroyed"

\* an alive check that never throws
isAlive_Always == TRUE

\* _isAliveCheck: throws when the socket is null
isAlive == socket # "null"

\* Map.prototype.set and Map.prototype.delete on this._requests
mapSet(m, k, v) == [x \in DOMAIN m \cup {k} |-> IF x = k THEN v ELSE m[x]]
mapDelete(m, k) == [x \in DOMAIN m \ {k} |-> m[x]]

\* _send: encode, socket.send(msg, 0, msg.length, peer.udpPort, peer.address)
datagram(peer, typename, data) ==
  [ msg |-> encode(typename, data, ServerKey),
    port |-> peer.udpPort, address |-> peer.address, at |-> now ]

DptInit ==
  /\ now = 0
  /\ socket = "created"
  /\ requests = << >>
  /\ requestsCache = << >>
  /\ deferreds = << >>
  /\ sent = << >>
  /\ emitted = << >>
  /\ peersTimers = << >>
  /\ handled = << >>
  /\ last = [op |-> "constructor", error |-> "", promise |-> 0]

bind ==
  /\ socket # "bound"
  /\ IF isAlive
       THEN /\ socket' = "bound"
            /\ last' = [op |-> "bind", error |-> "", promise |-> 0]
       ELSE /\ last' = [op |-> "bind", error |-> destroyedError, promise |-> 0]
            /\ UNCHANGED socket
  /\ UNCHANGED <<now, requests, requestsCache, deferreds, sent, emitted, peersTimers, handled>>
  /\ UNCHANGED eciesVars

destroy ==
  /\ IF isAlive
       THEN /\ socket' = "null"
            /\ last' = [op |-> "destroy", error |-> "", promise |-> 0]
       ELSE /\ last' = [op |-> "destroy", error |-> destroyedError, promise |-> 0]
            /\ UNCHANGED socket
  /\ UNCHANGED <<now, requests, requestsCache, deferreds, sent, emitted, peersTimers, handled>>
  /\ UNCHANGED eciesVars

\* ping(peer), after the alive check and a miss of the dedup cache: lines 73-91
pingSend(peer, cache) ==
  LET d == datagram(peer, "ping", pingData(endpoint, peer))
      rkey == messageId(d.msg)
      i == Len(deferreds) + 1
  IN /\ sent' = Append(sent, d)
     /\ deferreds' = Append(deferreds, newRequest(peer, rkey, timeout, now))
     /\ requests' = mapSet(requests, rkey, [peer |-> peer, deferred |-> i, timeoutId |-> i])
     /\ requestsCache' = lruSet(cache, rckeyOf(peer), i, now)
     /\ last' = [op |-> "ping", error |-> "", promise |-> i]

ping(peer) ==
  /\ IF ~isAlive
       THEN /\ last' = [op |-> "ping", error |-> destroyedError, promise |-> 0]
            /\ UNCHANGED <<requests, requestsCache, deferreds, sent>>
       ELSE LET hit == lruGet(requestsCache, rckeyOf(peer), now) IN
            IF hit.value # 0
              THEN /\ requestsCache' = hit.cache
                   /\ last' = [op |-> "ping", error |-> "", promise |-> hit.value]
                   /\ UNCHANGED <<requests, deferreds, sent>>
              ELSE /\ Len(deferreds) < MaxPings
                   /\ pingSend(peer, hit.cache)
  /\ UNCHANGED <<now, socket, emitted, peersTimers, handled>>
  /\ UNCHANGED eciesVars

\* a timeout callback that deletes the entry and forgets to reject
pingTimeout_NoReject(i) ==
  /\ i \in DOMAIN deferreds
  /\ deferreds[i].armed
  /\ now >= deferreds[i].deadline
  /\ \A j \in 1..(i - 1) : ~deferreds[j].armed
  /\ requests' = mapDelete(requests, deferreds[i].rkey)
  /\ deferreds' = [deferreds EXCEPT ![i].armed = FALSE]
  /\ last' = [op |-> "timeout", error |-> "", promise |-> i]
  /\ UNCHANGED <<now, socket, requestsCache, sent, emitted, peersTimers, handled>>
  /\ UNCHANGED eciesVars

\* a timeout callback that rejects and leaves the entry in the map
pingTimeout_NoDelete(i) ==
  /\ i \in DOMAIN deferreds
  /\ deferreds[i].armed
  /\ now >= deferreds[i].deadline
  /\ \A j \in 1..(i - 1) : ~deferreds[j].armed
  /\ deferreds' = [deferreds EXCEPT
                     ![i] = [reject(@, timeoutError(@.peer)) EXCEPT !.armed = FALSE]]
  /\ last' = [op |-> "timeout", error |-> "", promise |-> i]
  /\ UNCHANGED <<now, socket, requests, requestsCache, sent, emitted, peersTimers, handled>>
  /\ UNCHANGED eciesVars

\* the setTimeout callback of ping(): lines 84-88
pingTimeout(i) ==
  /\ i \in DOMAIN deferreds
  /\ deferreds[i].armed
  /\ now >= deferreds[i].deadline
  /\ \A j \in 1..(i - 1) : ~deferreds[j].armed
  /\ requests' = mapDelete(requests, deferreds[i].rkey)
  /\ deferreds' = [deferreds EXCEPT
                     ![i] = [reject(@, timeoutError(@.peer)) EXCEPT !.armed = FALSE]]
  /\ last' = [op |-> "timeout", error |-> "", promise |-> i]
  /\ UNCHANGED <<now, socket, requestsCache, sent, emitted, peersTimers, handled>>
  /\ UNCHANGED eciesVars

findneighbours(peer, id) ==
  /\ IF isAlive
       THEN /\ Cardinality({n \in DOMAIN sent : sent[n].msg.typename = "findneighbours"}) < MaxFind
            /\ sent' = Append(sent, datagram(peer, "findneighbours", [id |-> id]))
            /\ last' = [op |-> "findneighbours", error |-> "", promise |-> 0]
       ELSE /\ last' = [op |-> "findneighbours", error |-> destroyedError, promise |-> 0]
            /\ UNCHANGED sent
  /\ UNCHANGED <<now, socket, requests, requestsCache, deferreds, emitted, peersTimers, handled>>
  /\ UNCHANGED eciesVars

\* a case 'ping' that answers to the endpoint the ping declares
handlePing_ReplyToFrom(msg, rinfo, info, peerId) ==
  LET to == [ address |-> info.data.from.address, udpPort |-> info.data.from.udpPort,
              id |-> peerId ] IN
  /\ sent' = Append(sent, datagram(to, "pong",
                 [ to   |-> [ address |-> info.data.from.address,
                              udpPort |-> info.data.from.udpPort,
                              tcpPort |-> info.data.from.tcpPort ],
                   hash |-> messageId(msg) ]))
  /\ UNCHANGED <<requests, deferreds, emitted>>

\* _handler, case 'ping': the pong goes to the datagram's source
handlePing(msg, rinfo, info, peerId) ==
  LET to == [address |-> rinfo.address, udpPort |-> rinfo.port, id |-> peerId] IN
  /\ sent' = Append(sent, datagram(to, "pong",
                 [ to   |-> [ address |-> rinfo.address, udpPort |-> rinfo.port,
                              tcpPort |-> info.data.from.tcpPort ],
                   hash |-> messageId(msg) ]))
  /\ UNCHANGED <<requests, deferreds, emitted>>

\* a case 'pong' that drops every pending request when the hash is unknown
handlePong_ClearOnMiss(info, peerId) ==
  LET rkey == info.data.hash IN
  /\ IF rkey \in DOMAIN requests
       THEN LET request == requests[rkey] IN
            /\ requests' = mapDelete(requests, rkey)
            /\ deferreds' = [deferreds EXCEPT ![request.deferred] =
                               resolve(@, [ id      |-> peerId,
                                            address |-> request.peer.address,
                                            udpPort |-> request.peer.udpPort,
                                            tcpPort |-> request.peer.tcpPort ])]
       ELSE /\ requests' = << >>
            /\ UNCHANGED deferreds
  /\ UNCHANGED <<sent, emitted>>

\* _handler, case 'pong': correlate by the hash the pong carries
handlePong(info, peerId) ==
  LET rkey == info.data.hash IN
  /\ IF rkey \in DOMAIN requests
       THEN LET request == requests[rkey] IN
            /\ requests' = mapDelete(requests, rkey)
            /\ deferreds' = [deferreds EXCEPT ![request.deferred] =
                               resolve(@, [ id      |-> peerId,
                                            address |-> request.peer.address,
                                            udpPort |-> request.peer.udpPort,
                                            tcpPort |-> request.peer.tcpPort ])]
       ELSE UNCHANGED <<requests, deferreds>>
  /\ UNCHANGED <<sent, emitted>>

\* _handler, case 'findneighbours'
handleFindneighbours(rinfo, info, peerId) ==
  LET to == [address |-> rinfo.address, udpPort |-> rinfo.port, id |-> peerId] IN
  /\ sent' = Append(sent, datagram(to, "neighbours",
                                   [peers |-> getClosestPeers(info.data.id)]))
  /\ UNCHANGED <<requests, deferreds, emitted>>

\* _handler, case 'neighbours'
handleNeighbours(info) ==
  /\ emitted' = Append(emitted,
       [ name |-> "peers", at |-> now, timer |-> 0,
         args |-> [n \in DOMAIN info.data.peers |-> info.data.peers[n].endpoint] ])
  /\ UNCHANGED <<requests, deferreds, sent>>

\* a condition that does not consult the routing table
addPeerCondition_AnyPing(known, info) ==
  info.typename = "ping" /\ info.data.from.udpPort # NULL

\* the condition of line 118: the sender is unknown to the routing table and
\* the ping declares a udp port
addPeerCondition(known, info) ==
  ~known /\ info.typename = "ping" /\ info.data.from.udpPort # NULL

\* the case of the switch of _handler that a typename selects
handlerCase(typename) ==
  CASE typename = "ping" -> "case ping"
    [] typename = "pong" -> "case pong"
    [] typename = "findneighbours" -> "case findneighbours"
    [] typename = "neighbours" -> "case neighbours"

\* _handler(msg, rinfo); known says whether this._dpt.getPeer(peerId) is non-null
handler(msg, rinfo, known) ==
  LET info == decode(msg)
      peerId == pk2id(info.publicKey)
  IN /\ peersTimers' =
          IF addPeerCondition(known, info)
            THEN Append(peersTimers, [ armed |-> TRUE, cause |-> Len(handled) + 1,
                                       deadline |-> now + PEERS_DELAY,
                                       arg |-> <<info.data.from>> ])
            ELSE peersTimers
     /\ CASE info.typename = "ping" -> handlePing(msg, rinfo, info, peerId)
          [] info.typename = "pong" -> handlePong(info, peerId)
          [] info.typename = "findneighbours" -> handleFindneighbours(rinfo, info, peerId)
          [] info.typename = "neighbours" -> handleNeighbours(info)

\* the socket's 'message' listener: an exception of _handler becomes an
\* 'error' event.  A closed socket delivers nothing.
onMessage(msg, rinfo, known) ==
  /\ isAlive
  /\ IF msg.typename = "pong" /\ validMessage(msg)
       THEN UNCHANGED handled
       ELSE /\ Len(handled) < MaxRecv
            /\ handled' = Append(handled, [ msg |-> msg, rinfo |-> rinfo, known |-> known,
                                            at |-> now ])
  /\ IF validMessage(msg)
       THEN /\ handler(msg, rinfo, known)
            /\ last' = [ op |-> handlerCase(msg.typename), error |-> "",
                         promise |-> IF msg.typename = "pong" /\ msg.data.hash \in DOMAIN requests
                                       THEN requests[msg.data.hash].deferred ELSE 0 ]
       ELSE /\ emitted' = Append(emitted, [ name |-> "error", at |-> now, timer |-> 0,
                                            args |-> << >> ])
            /\ last' = [op |-> "message", error |-> "decode", promise |-> 0]
            /\ UNCHANGED <<requests, deferreds, sent, peersTimers>>
  /\ UNCHANGED <<now, socket, requestsCache>>
  /\ UNCHANGED eciesVars

\* the setTimeout callback of line 119
peersTimeout(i) ==
  /\ i \in DOMAIN peersTimers
  /\ peersTimers[i].armed
  /\ now >= peersTimers[i].deadline
  /\ \A j \in 1..(i - 1) : ~peersTimers[j].armed
  /\ emitted' = Append(emitted, [ name |-> "peers", at |-> now, timer |-> i,
                                  args |-> peersTimers[i].arg ])
  /\ peersTimers' = [peersTimers EXCEPT ![i].armed = FALSE]
  /\ last' = [op |-> "peersTimeout", error |-> "", promise |-> 0]
  /\ UNCHANGED <<now, socket, requests, requestsCache, deferreds, sent, handled>>
  /\ UNCHANGED eciesVars

-----------------------------------------------------------------------------
(* The passage of time *)

Deadlines ==
  { deferreds[i].deadline : i \in { j \in DOMAIN deferreds : deferreds[j].armed } }
  \cup { peersTimers[i].deadline : i \in { j \in DOMAIN peersTimers : peersTimers[j].armed } }

\* time passes by a fixed step, up to a horizon
Tick(step, horizon) ==
  /\ now + step <= horizon
  /\ now' = now + step
  /\ UNCHANGED <<socket, requests, requestsCache, deferreds, sent, emitted, peersTimers,
                 handled, last>>
  /\ UNCHANGED eciesVars

\* time passes until the next armed timer is due
Sleep ==
  /\ \E d \in Deadlines : d > now
  /\ now' = CHOOSE d \in Deadlines : d > now /\ \A e \in Deadlines : e > now => d <= e
  /\ UNCHANGED <<socket, requests, requestsCache, deferreds, sent, emitted, peersTimers,
                 handled, last>>
  /\ UNCHANGED eciesVars

-----------------------------------------------------------------------------
(* Values and primitives of the ECIES handshake *)

\* a field that is null, or holds a value
Null == << >>
Some(v) == <<v>>
the(o) == o[1]

Min(a, b) == IF a < b THEN a ELSE b

\* what a call returns, or the error it throws; e is the instance afterwards
Return(e, out) == [e |-> e, ok |-> TRUE, error |-> "", out |-> out]
Throw(e, error) == [e |-> e, ok |-> FALSE, error |-> error, out |-> Null]

\* hashes and the MAC of a message are collision-free functions of their input
keccak256(parts) == [fn |-> "keccak256", in |-> parts]
sha256(parts) == [fn |-> "sha256", in |-> parts]
createHmac(key, data) == [fn |-> "hmac-sha256", key |-> key, in |-> data]

\* util.xor: read only through equality of two results by the handshake
xor(a, b) == [fn |-> "xor", in |-> <<a, b>>]

\* what reading bytes at the wrong place, or under the wrong key, yields
Garbled == 255

\* secp256k1.ecdhUnsafe(publicKey, privateKey, true).slice(1)
ecdhX(publicKey, privateKey) == PowMod(publicKey.point, privateKey)

\* secp256k1.sign / secp256k1.recover: recovery gives back the signer's key
\* from the digest that was signed, and another key from any other digest
sign(digest, privateKey) ==
  [ signature |-> [digest |-> digest, key |-> privateKey],
    recovery  |-> privateKey % 2 ]

recover(digest, signature, recovery) ==
  IF signature.digest = digest /\ recovery = signature.key % 2
    THEN publicKeyCreate(signature.key)
    ELSE [prefix |-> 4, point |-> CURVE_P - PowMod(CURVE_G, signature.key)]

\* a handshake plaintext: the buffers that Buffer.concat joins, each with its
\* length in bytes
chunk(len, val) == [len |-> len, val |-> val]

RECURSIVE byteLength(_)
byteLength(buf) == IF buf = << >> THEN 0 ELSE Head(buf).len + byteLength(Tail(buf))

\* buf.slice(lo, hi), and buf[lo] for hi = lo + 1
slice(buf, lo, hi) ==
  LET at == { i \in DOMAIN buf : /\ byteLength(SubSeq(buf, 1, i - 1)) = lo
                                 /\ lo + buf[i].len = hi }
  IN IF at = {} THEN Garbled ELSE buf[CHOOSE i \in at : TRUE].val

\* a loop that makes one pass more
RECURSIVE kdfBlocks_OneMore(_, _, _)
kdfBlocks_OneMore(counter, keyMaterial, keyLength) ==
  IF (counter - 1) * (64 * 8) <= (keyLength + 7) * 8
    THEN <<sha256(<<counter + 1, keyMaterial>>)>>
           \o kdfBlocks_OneMore(counter + 1, keyMaterial, keyLength)
    ELSE << >>

\* the loop of concatKDF: one SHA-256 block per pass, while counter <= reps
\* with reps = ((keyLength + 7) * 8) / (64 * 8), a fraction
RECURSIVE kdfBlocks(_, _, _)
kdfBlocks(counter, keyMaterial, keyLength) ==
  IF counter * (64 * 8) <= (keyLength + 7) * 8
    THEN <<sha256(<<counter + 1, keyMaterial>>)>>
           \o kdfBlocks(counter + 1, keyMaterial, keyLength)
    ELSE << >>

\* Buffer.concat(buffers).slice(0, keyLength)
concatKDF(keyMaterial, keyLength) ==
  LET buffers == kdfBlocks(0, keyMaterial, keyLength)
  IN [blocks |-> buffers, lo |-> 0, hi |-> Min(keyLength, 32 * Len(buffers))]

\* key.slice(lo, hi) of a derived key
keySlice(key, lo, hi) == [key EXCEPT !.lo = Min(lo, key.hi), !.hi = Min(hi, key.hi)]

\* aes-128-ctr in one shot: deciphering gives the data back under the key and
\* IV it was enciphered with
cipherUpdate(key, IV, data) == [key |-> key, IV |-> IV, data |-> data]

decipherUpdate(key, IV, encryptedData) ==
  IF encryptedData.key = key /\ encryptedData.IV = IV
    THEN encryptedData.data
    ELSE <<chunk(byteLength(encryptedData.data), Garbled)>>

-----------------------------------------------------------------------------
(* Byte buffers, the AES-256-CTR streams and the MAC of the frame codec *)

\* ethereumjs-util intToBuffer / bufferToInt: big-endian, no leading zeros
RECURSIVE intToBuffer(_)
intToBuffer(i) == IF i < 256 THEN <<i>> ELSE Append(intToBuffer(i \div 256), i % 256)

RECURSIVE bufferToInt(_)
bufferToInt(bytes) ==
  IF bytes = << >> THEN 0
  ELSE bufferToInt(SubSeq(bytes, 1, Len(bytes) - 1)) * 256 + bytes[Len(bytes)]

\* util.zfill(buffer, size, leftpad = true)
zfill(buffer, size, leftpad) ==
  IF Len(buffer) >= size THEN buffer
  ELSE LET pad == [i \in 1..(size - Len(buffer)) |-> 0]
       IN IF leftpad THEN pad \o buffer ELSE buffer \o pad

\* rlp.encode([ 0, 0 ])
rlpOfZeroZero == <<194, 128, 128>>

\* bytes, with the stretches of keystream that are XORed onto them
plain(bytes) == [layers |-> {}, bytes |-> bytes]

\* the bytes one reads from a buffer; keystream left on them changes each
readBytes(buf) ==
  IF buf.layers = {} THEN buf.bytes ELSE [i \in DOMAIN buf.bytes |-> 255 - buf.bytes[i]]

\* crypto.createDecipheriv('aes-256-ctr', key, IV)
createDecipheriv(key, IV) == [key |-> key, IV |-> IV, pos |-> 0]

\* stream.update(buf): XOR with the next Len(buf) bytes of the keystream;
\* XORing the same stretch twice cancels
streamUpdate(stream, buf) ==
  LET seg == [ key |-> stream.key, IV |-> stream.IV,
               lo |-> stream.pos, hi |-> stream.pos + Len(buf.bytes) ]
  IN [ stream |-> [stream EXCEPT !.pos = seg.hi],
       out    |-> IF buf.bytes = << >> THEN buf
                  ELSE [buf EXCEPT !.layers = IF seg \in @ THEN @ \ {seg}
                                              ELSE @ \cup {seg}] ]

\* MAC: a Keccak absorber seeded with the secret.  What updateHeader and
\* updateBody absorb is a function of the state and of their argument, so the
\* state is the secret and the updates made so far.
newMAC(secret) == [secret |-> secret, updates |-> << >>]

macUpdate(mac, data) ==
  [mac EXCEPT !.updates = Append(@, [op |-> "update", data |-> data])]

macUpdateHeader(mac, header) ==
  [mac EXCEPT !.updates = Append(@, [op |-> "updateHeader", data |-> header])]

macUpdateBody(mac, body) ==
  [mac EXCEPT !.updates = Append(@, [op |-> "updateBody", data |-> body])]

\* the first 16 bytes of the state's output
macDigest(mac) == [fn |-> "digest", secret |-> mac.secret, updates |-> mac.updates]

-----------------------------------------------------------------------------
(* class ECIES *)

\* the constructor; crypto.randomBytes and util.genPrivateKey are arguments
ECIES(privateKey, id, remoteId, nonce, ephemeralPrivateKey) ==
  [ privateKey |-> privateKey,
    publicKey |-> id2pk(id),
    remotePublicKey |-> IF remoteId # Null THEN Some(id2pk(the(remoteId))) ELSE Null,
    nonce |-> nonce,
    remoteNonce |-> Null,
    initMsg |-> Null,
    remoteInitMsg |-> Null,
    ingressAes |-> Null,
    egressAes |-> Null,
    ingressMac |-> Null,
    egressMac |-> Null,
    ephemeralPrivateKey |-> ephemeralPrivateKey,
    ephemeralPublicKey |-> publicKeyCreate(ephemeralPrivateKey),
    remoteEphemeralPublicKey |-> Null,
    ephemeralSharedSecret |-> Null,
    bodySize |-> Null ]

\* the encryption key and the MAC key derived from a shared secret x
ekeyOf(x) == keySlice(concatKDF(x, 32), 0, 16)
mkeyOf(x) == sha256(<<keySlice(concatKDF(x, 32), 16, 32)>>)

\* _encryptMessage(data); privateKey and IV are its two random draws
encryptMessage(e, data, privateKey, IV) ==
  IF e.remotePublicKey = Null THEN Throw(e, "TypeError")
  ELSE LET x == ecdhX(the(e.remotePublicKey), privateKey)
           encryptedData == cipherUpdate(ekeyOf(x), IV, data)
           tag == createHmac(mkeyOf(x), <<IV, encryptedData>>)
       IN Return(e, Some([ publicKey |-> publicKeyCreate(privateKey), IV |-> IV,
                           encryptedData |-> encryptedData, tag |-> tag ]))

\* _decryptMessage(data)
decryptMessage(e, data) ==
  LET x == ecdhX(data.publicKey, e.privateKey)
      tag == createHmac(mkeyOf(x), <<data.IV, data.encryptedData>>)
  IN IF tag # data.tag THEN Throw(e, "should have valid tag")
     ELSE Return(e, Some(decipherUpdate(ekeyOf(x), data.IV, data.encryptedData)))

\* nonce material in the same order on both sides
nonceMaterial_Unswapped(e, incoming) == <<e.nonce, the(e.remoteNonce)>>

\* the nonce material of _setupFrame
nonceMaterial(e, incoming) ==
  IF incoming THEN <<e.nonce, the(e.remoteNonce)>> ELSE <<the(e.remoteNonce), e.nonce>>

\* _setupFrame(remoteData, incoming); a null buffer makes Buffer.concat or
\* the hash throw, after the assignments already made
setupFrame(e, remoteData, incoming) ==
  IF e.remoteNonce = Null \/ e.ephemeralSharedSecret = Null THEN Throw(e, "TypeError")
  ELSE
    LET hNonce == keccak256(nonceMaterial(e, incoming))
        IV == 0
        sharedSecret == keccak256(<<the(e.ephemeralSharedSecret), hNonce>>)
        aesSecret == keccak256(<<the(e.ephemeralSharedSecret), sharedSecret>>)
        macSecret == keccak256(<<the(e.ephemeralSharedSecret), aesSecret>>)
        e1 == [e EXCEPT !.ingressAes = Some(createDecipheriv(aesSecret, IV)),
                        !.egressAes = Some(createDecipheriv(aesSecret, IV)),
                        !.ingressMac = Some(newMAC(macSecret))]
    IN IF remoteData = Null THEN Throw(e1, "TypeError")
       ELSE
         LET e2 == [e1 EXCEPT
                      !.ingressMac = Some(macUpdate(newMAC(macSecret),
                                            <<xor(macSecret, e.nonce), the(remoteData)>>)),
                      !.egressMac = Some(newMAC(macSecret))]
         IN IF e.initMsg = Null THEN Throw(e2, "TypeError")
            ELSE Return([e2 EXCEPT
                           !.egressMac = Some(macUpdate(newMAC(macSecret),
                                                <<xor(macSecret, the(e.remoteNonce)),
                                                  the(e.initMsg)>>))],
                        Null)

\* createAuth()
createAuth(e, privateKey, IV) ==
  IF e.remotePublicKey = Null THEN Throw(e, "TypeError")
  ELSE LET x == ecdhX(the(e.remotePublicKey), e.privateKey)
           sig == sign(xor(x, e.nonce), e.ephemeralPrivateKey)
           data == << chunk(64, sig.signature),
                      chunk(1, sig.recovery),
                      chunk(32, keccak256(<<pk2id(e.ephemeralPublicKey)>>)),
                      chunk(64, pk2id(e.publicKey)),
                      chunk(32, e.nonce),
                      chunk(1, 0) >>
           m == encryptMessage(e, data, privateKey, IV)
       IN Return([e EXCEPT !.initMsg = m.out], m.out)

\* parseAuth(data)
parseAuth(e, data) ==
  LET e1 == [e EXCEPT !.remoteInitMsg = Some(data)]
      d == decryptMessage(e1, data)
  IN IF ~d.ok THEN Throw(e1, d.error)
     ELSE
       LET decypted == the(d.out)
           signature == slice(decypted, 0, 64)
           recoveryId == slice(decypted, 64, 65)
           heid == slice(decypted, 65, 97)
           e2 == [e1 EXCEPT !.remotePublicKey = Some(id2pk(slice(decypted, 97, 161))),
                            !.remoteNonce = Some(slice(decypted, 161, 193))]
           x == ecdhX(the(e2.remotePublicKey), e.privateKey)
           remoteEphemeralPublicKey == recover(xor(x, the(e2.remoteNonce)), signature, recoveryId)
           e3 == [e2 EXCEPT
                    !.remoteEphemeralPublicKey = Some(remoteEphemeralPublicKey),
                    !.ephemeralSharedSecret =
                       Some(ecdhX(remoteEphemeralPublicKey, e.ephemeralPrivateKey))]
       IN IF byteLength(decypted) # 194 THEN Throw(e1, "invalid packet length")
          ELSE IF slice(decypted, 193, 194) # 0 THEN Throw(e2, "invalid postfix")
          ELSE IF keccak256(<<pk2id(remoteEphemeralPublicKey)>>) # heid
            THEN Throw(e3, "the hash of the ephemeral key should match")
          ELSE Return(e3, Null)

\* createAck()
createAck(e, privateKey, IV) ==
  LET data == << chunk(64, pk2id(e.ephemeralPublicKey)),
                 chunk(32, e.nonce),
                 chunk(1, 0) >>
      m == encryptMessage(e, data, privateKey, IV)
  IN IF ~m.ok THEN Throw(e, m.error)
     ELSE LET e1 == [e EXCEPT !.initMsg = m.out]
              f == setupFrame(e1, e1.remoteInitMsg, TRUE)
          IN IF f.ok THEN Return(f.e, m.out) ELSE f

\* parseAck(data)
parseAck(e, data) ==
  LET d == decryptMessage(e, data)
  IN IF ~d.ok THEN d
     ELSE
       LET decypted == the(d.out)
           e1 == [e EXCEPT !.remoteEphemeralPublicKey = Some(id2pk(slice(decypted, 0, 64))),
                           !.remoteNonce = Some(slice(decypted, 64, 96))]
           e2 == [e1 EXCEPT !.ephemeralSharedSecret =
                    Some(ecdhX(the(e1.remoteEphemeralPublicKey), e.ephemeralPrivateKey))]
       IN IF byteLength(decypted) # 97 THEN Throw(e, "invalid packet length")
          ELSE IF slice(decypted, 96, 97) # 0 THEN Throw(e1, "invalid postfix")
          ELSE setupFrame(e2, Some(data), FALSE)

\* a size field padded on the right
sizeField_RightPadded(size) == zfill(intToBuffer(size), 3, FALSE)

\* the size field of a header: util.zfill(intToBuffer(size), 3)
sizeField(size) == zfill(intToBuffer(size), 3, TRUE)

\* createHeader(size)
createHeader(e, size) ==
  IF e.egressAes = Null THEN Throw(e, "TypeError")
  ELSE LET header == zfill(sizeField(size) \o rlpOfZeroZero, 16, FALSE)
           u == streamUpdate(the(e.egressAes), plain(header))
           e1 == [e EXCEPT !.egressAes = Some(u.stream)]
       IN IF e.egressMac = Null THEN Throw(e1, "TypeError")
          ELSE LET mac == macUpdateHeader(the(e.egressMac), u.out)
               IN Return([e1 EXCEPT !.egressMac = Some(mac)],
                         Some([header |-> u.out, mac |-> macDigest(mac)]))

\* parseHeader(data): data.slice(0, 16) is the header, data.slice(16, 32) the mac
parseHeader(e, data) ==
  IF e.ingressMac = Null THEN Throw(e, "TypeError")
  ELSE LET mac == macUpdateHeader(the(e.ingressMac), data.header)
           e1 == [e EXCEPT !.ingressMac = Some(mac)]
       IN IF macDigest(mac) # data.mac THEN Throw(e1, "Invalid MAC")
          ELSE IF e.ingressAes = Null THEN Throw(e1, "TypeError")
          ELSE LET u == streamUpdate(the(e.ingressAes), data.header)
                   bodySize == bufferToInt(SubSeq(readBytes(u.out), 1, 3))
               IN Return([e1 EXCEPT !.ingressAes = Some(u.stream),
                                    !.bodySize = Some(bodySize)],
                         Some(bodySize))

\* Math.ceil(length / 16) * 16
paddedLength(length) == ((length + 15) \div 16) * 16

\* createBody(data)
createBody(e, data) ==
  IF e.egressAes = Null THEN Throw(e, "TypeError")
  ELSE LET padded == zfill(data, paddedLength(Len(data)), FALSE)
           u == streamUpdate(the(e.egressAes), plain(padded))
           e1 == [e EXCEPT !.egressAes = Some(u.stream)]
       IN IF e.egressMac = Null THEN Throw(e1, "TypeError")
          ELSE LET mac == macUpdateBody(the(e.egressMac), u.out)
               IN Return([e1 EXCEPT !.egressMac = Some(mac)],
                         Some([body |-> u.out, mac |-> macDigest(mac)]))

\* parseBody that leaves this._bodySize as it was
parseBody_KeepsSize(e, data) ==
  IF e.bodySize = Null THEN Throw(e, "need to parse header first")
  ELSE IF e.ingressMac = Null THEN Throw(e, "TypeError")
  ELSE LET mac == macUpdateBody(the(e.ingressMac), data.body)
           e1 == [e EXCEPT !.ingressMac = Some(mac)]
       IN IF macDigest(mac) # data.mac THEN Throw(e1, "Invalid MAC")
          ELSE IF e.ingressAes = Null THEN Throw(e1, "TypeError")
          ELSE LET size == the(e.bodySize)
                   u == streamUpdate(the(e.ingressAes), data.body)
               IN Return([e1 EXCEPT !.ingressAes = Some(u.stream)],
                         Some([u.out EXCEPT !.bytes = SubSeq(@, 1, Min(size, Len(@)))]))

\* parseBody(data): data.slice(0, -16) is the body, data.slice(-16) the mac
parseBody(e, data) ==
  IF e.bodySize = Null THEN Throw(e, "need to parse header first")
  ELSE IF e.ingressMac = Null THEN Throw(e, "TypeError")
  ELSE LET mac == macUpdateBody(the(e.ingressMac), data.body)
           e1 == [e EXCEPT !.ingressMac = Some(mac)]
       IN IF macDigest(mac) # data.mac THEN Throw(e1, "Invalid MAC")
          ELSE IF e.ingressAes = Null THEN Throw([e1 EXCEPT !.bodySize = Null], "TypeError")
          ELSE LET size == the(e.bodySize)
                   u == streamUpdate(the(e.ingressAes), data.body)
               IN Return([e1 EXCEPT !.bodySize = Null, !.ingressAes = Some(u.stream)],
                         Some([u.out EXCEPT !.bytes = SubSeq(@, 1, Min(size, Len(@)))]))

-----------------------------------------------------------------------------
(* Two ECIES instances joined by a connection *)

Sides == {"initiator", "responder"}

remoteOf(s) == IF s = "initiator" THEN "responder" ELSE "initiator"

\* the two instances as constructed: only the initiator knows the remote id
\* concatKDF has not been called on its own
NoKdf == [keyMaterial |-> 0, keyLength |-> 0, key |-> Null]

EciesInit(kI, kR, eI, eR, nI, nR) ==
  /\ ecies = [ s \in Sides |->
                 IF s = "initiator"
                   THEN ECIES(kI, pk2id(publicKeyCreate(kI)),
                              Some(pk2id(publicKeyCreate(kR))), nI, eI)
                   ELSE ECIES(kR, pk2id(publicKeyCreate(kR)), Null, nR, eR) ]
  /\ stage = [s \in Sides |-> "idle"]
  /\ wire = [s \in Sides |-> << >>]
  /\ written = [s \in Sides |-> << >>]
  /\ parsed = [s \in Sides |-> << >>]
  /\ eciesLast = [op |-> "constructor", side |-> "initiator", ok |-> TRUE, error |-> ""]
  /\ kdf = NoKdf

\* no ECIES instance has been constructed
NoConnection ==
  /\ ecies = << >>
  /\ stage = << >>
  /\ wire = << >>
  /\ written = << >>
  /\ parsed = << >>
  /\ eciesLast = [op |-> "none", side |-> "none", ok |-> TRUE, error |-> ""]

EciesIdle == NoConnection /\ kdf = NoKdf

\* the instance of side s after a call, the caller's next stage, and the
\* message the call put on the wire to side `to`, if any
afterCall(s, op, r, next, to) ==
  /\ ecies' = [ecies EXCEPT ![s] = r.e]
  /\ stage' = [stage EXCEPT ![s] = IF r.ok THEN next ELSE "failed"]
  /\ wire' = IF r.ok /\ r.out # Null /\ to # s
               THEN [wire EXCEPT ![to] = Append(@, the(r.out))]
               ELSE wire
  /\ eciesLast' = [op |-> op, side |-> s, ok |-> r.ok, error |-> r.error]

\* the same for a call that consumed the first message on the wire to s
afterParse(s, op, r, next) ==
  /\ ecies' = [ecies EXCEPT ![s] = r.e]
  /\ stage' = [stage EXCEPT ![s] = IF r.ok THEN next ELSE "failed"]
  /\ wire' = [wire EXCEPT ![s] = Tail(@)]
  /\ eciesLast' = [op |-> op, side |-> s, ok |-> r.ok, error |-> r.error]

CreateAuth(privateKey, IV) ==
  /\ stage["initiator"] = "idle"
  /\ afterCall("initiator", "createAuth",
               createAuth(ecies["initiator"], privateKey, IV), "sentAuth", "responder")
  /\ UNCHANGED <<written, parsed>>
  /\ UNCHANGED <<dptVars, kdf>>

ParseAuth ==
  /\ stage["responder"] = "idle"
  /\ wire["responder"] # << >>
  /\ afterParse("responder", "parseAuth",
                parseAuth(ecies["responder"], Head(wire["responder"])), "receivedAuth")
  /\ UNCHANGED <<written, parsed>>
  /\ UNCHANGED <<dptVars, kdf>>

CreateAck(privateKey, IV) ==
  /\ stage["responder"] = "receivedAuth"
  /\ afterCall("responder", "createAck",
               createAck(ecies["responder"], privateKey, IV), "established", "initiator")
  /\ UNCHANGED <<written, parsed>>
  /\ UNCHANGED <<dptVars, kdf>>

ParseAck ==
  /\ stage["initiator"] = "sentAuth"
  /\ wire["initiator"] # << >>
  /\ afterParse("initiator", "parseAck",
                parseAck(ecies["initiator"], Head(wire["initiator"])), "established")
  /\ UNCHANGED <<written, parsed>>
  /\ UNCHANGED <<dptVars, kdf>>

\* the frames written on the connection so far
framesWritten == Len(written["initiator"]) + Len(written["responder"])

\* side s writes the header of a frame; its owner writes header and body in turn
CreateHeader(s, frame, max) ==
  /\ stage[s] = "established"
  /\ framesWritten < max
  /\ IF written[s] = << >> THEN TRUE ELSE written[s][Len(written[s])].body
  /\ afterCall(s, "createHeader", createHeader(ecies[s], frame.size), "established",
               remoteOf(s))
  /\ written' = [written EXCEPT ![s] = Append(@, [ size |-> frame.size, data |-> frame.data,
                                                   body |-> FALSE ])]
  /\ UNCHANGED parsed
  /\ UNCHANGED <<dptVars, kdf>>

CreateBody(s) ==
  /\ stage[s] = "established"
  /\ written[s] # << >>
  /\ ~written[s][Len(written[s])].body
  /\ afterCall(s, "createBody", createBody(ecies[s], written[s][Len(written[s])].data),
               "established", remoteOf(s))
  /\ written' = [written EXCEPT ![s][Len(written[s])].body = TRUE]
  /\ UNCHANGED parsed
  /\ UNCHANGED <<dptVars, kdf>>

\* side s reads what arrived, a header and a body in turn
ParseHeader(s) ==
  /\ stage[s] = "established"
  /\ wire[s] # << >>
  /\ IF parsed[s] = << >> THEN TRUE ELSE parsed[s][Len(parsed[s])].body # Null
  /\ LET r == parseHeader(ecies[s], Head(wire[s])) IN
     /\ afterParse(s, "parseHeader", r, "established")
     /\ parsed' = [parsed EXCEPT ![s] = Append(@, [size |-> r.out, body |-> Null])]
  /\ UNCHANGED written
  /\ UNCHANGED <<dptVars, kdf>>

ParseBody(s) ==
  /\ stage[s] = "established"
  /\ wire[s] # << >>
  /\ parsed[s] # << >>
  /\ parsed[s][Len(parsed[s])].body = Null
  /\ LET r == parseBody(ecies[s], Head(wire[s])) IN
     /\ afterParse(s, "parseBody", r, "established")
     /\ parsed' = [parsed EXCEPT ![s][Len(parsed[s])].body = r.out]
  /\ UNCHANGED written
  /\ UNCHANGED <<dptVars, kdf>>

\* the keys and nonces the two ends may draw
InitiatorKeys == {2, 3}
ResponderKeys == {4}
InitiatorEphemeralKeys == {6}
ResponderEphemeralKeys == {7, 8}
InitiatorNonces == {1, 2}
ResponderNonces == {3}
MessageKeys == {9}
MessageIVs == {1}

\* the frames the two ends may write: every padding case, an empty frame, and
\* the largest size a header can carry, which is not the size of its data
Bytes(n) == [i \in 1..n |-> (7 * i) % 256]

Frames ==
  { [size |-> n, data |-> Bytes(n)] : n \in {0, 1, 16, 17} }
  \cup { [size |-> 16777215, data |-> Bytes(1)] }

HandshakeInit ==
  /\ DptInit
  /\ \E kI \in InitiatorKeys, kR \in ResponderKeys,
        eI \in InitiatorEphemeralKeys, eR \in ResponderEphemeralKeys,
        nI \in InitiatorNonces, nR \in ResponderNonces :
       EciesInit(kI, kR, eI, eR, nI, nR)

HandshakeNext ==
  \/ \E k \in MessageKeys, IV \in MessageIVs : CreateAuth(k, IV)
  \/ ParseAuth
  \/ \E k \in MessageKeys, IV \in MessageIVs : CreateAck(k, IV)
  \/ ParseAck
  \/ \E s \in Sides, frame \in Frames : CreateHeader(s, frame, MaxHandshakeFrames)
  \/ \E s \in Sides : CreateBody(s)
  \/ \E s \in Sides : ParseHeader(s)
  \/ \E s \in Sides : ParseBody(s)

HandshakeSpec == HandshakeInit /\ [][HandshakeNext]_vars

(* The frame codec on a connection whose handshake is complete *)

\* the two instances after createAuth, parseAuth, createAck and parseAck
FrameInit ==
  /\ DptInit
  /\ LET initiator == ECIES(3, pk2id(publicKeyCreate(3)), Some(pk2id(publicKeyCreate(4))), 2, 6)
         responder == ECIES(4, pk2id(publicKeyCreate(4)), Null, 3, 8)
         auth == createAuth(initiator, 9, 1)
         authParsed == parseAuth(responder, the(auth.out))
         ack == createAck(authParsed.e, 9, 1)
         ackParsed == parseAck(auth.e, the(ack.out))
     IN /\ ecies = [s \in Sides |-> IF s = "initiator" THEN ackParsed.e ELSE ack.e]
        /\ stage = [s \in Sides |-> "established"]
        /\ eciesLast = [op |-> "parseAck", side |-> "initiator", ok |-> ackParsed.ok,
                        error |-> ackParsed.error]
  /\ wire = [s \in Sides |-> << >>]
  /\ written = [s \in Sides |-> << >>]
  /\ parsed = [s \in Sides |-> << >>]
  /\ kdf = NoKdf

FrameNext ==
  \/ \E s \in Sides, frame \in Frames : CreateHeader(s, frame, MaxFrames)
  \/ \E s \in Sides : CreateBody(s)
  \/ \E s \in Sides : ParseHeader(s)
  \/ \E s \in Sides : ParseBody(s)

FrameSpec == FrameInit /\ [][FrameNext]_vars

-----------------------------------------------------------------------------
(* The discovery server's specification *)

\* where pongs come from; case 'pong' does not read rinfo
PongSource == [address |-> "10.0.0.9", port |-> 40000]

\* what the socket may deliver: a datagram, its source, and whether the
\* routing table knows the signer (which only a ping's handling reads)
\* inbound pings: each from a source that is not the endpoint it declares,
\* signed by a peer the routing table knows or does not know
PingDeliveries ==
  { d \in InPings \X RInfos \X BOOLEAN :
      (d[1].data.from.udpPort = NULL) = (d[2].port = 30303) }

Deliveries ==
  PingDeliveries
  \cup (({ m \in InPongs : m.signature = 7 }
           \cup InFindneighbours \cup InNeighbours \cup InInvalid)
          \X {PongSource} \X {FALSE})

Init == DptInit /\ EciesIdle

Next ==
  \/ destroy
  \/ \E peer \in Peers : ping(peer)
  \/ \E msg \in InPongs : onMessage(msg, PongSource, FALSE)
  \/ \E i \in 1..MaxPings : pingTimeout(i)
  \/ Tick(MAX_AGE \div 2, MaxTime)
  \/ Sleep

Spec == Init /\ [][Next]_vars

\* every timer that is due fires, and time does not stop before a deadline
Fairness ==
  /\ \A i \in 1..MaxPings : WF_vars(pingTimeout(i))
  /\ WF_vars(Sleep)

FairSpec == Spec /\ Fairness

(* The server's life cycle: the public calls before and after destroy *)

LifecycleNext ==
  \/ bind
  \/ destroy
  \/ \E peer \in Peers : ping(peer)
  \/ \E peer \in Peers : findneighbours(peer, TargetId)
  \/ \E i \in 1..MaxPings : pingTimeout(i)
  \/ Tick(MAX_AGE, MaxTime)
  \/ Sleep

LifecycleSpec == Init /\ [][LifecycleNext]_vars

(* Inbound dispatch: every kind of datagram, and the delayed peers events *)

\* the server after one call of ping: a request is pending and cached
PingedPeer == [address |-> "10.0.0.1", udpPort |-> 30303, tcpPort |-> 30303]

HandlerInit ==
  /\ EciesIdle
  /\ now = 0
  /\ socket = "created"
  /\ requests = mapSet(<< >>, pingHash(PingedPeer),
                       [peer |-> PingedPeer, deferred |-> 1, timeoutId |-> 1])
  /\ requestsCache = lruSet(<< >>, rckeyOf(PingedPeer), 1, 0)
  /\ deferreds = << newRequest(PingedPeer, pingHash(PingedPeer), timeout, 0) >>
  /\ sent = << [ msg |-> encode("ping", pingData(endpoint, PingedPeer), ServerKey),
                 port |-> PingedPeer.udpPort, address |-> PingedPeer.address, at |-> 0 ] >>
  /\ emitted = << >>
  /\ peersTimers = << >>
  /\ handled = << >>
  /\ last = [op |-> "ping", error |-> "", promise |-> 1]

HandlerNext ==
  \/ \E d \in Deliveries : onMessage(d[1], d[2], d[3])
  \/ \E i \in 1..MaxRecv : peersTimeout(i)
  \/ destroy
  \/ Tick(PEERS_DELAY, MaxHandlerTime)
  \/ Sleep

HandlerSpec == HandlerInit /\ [][HandlerNext]_vars

HandlerFairness ==
  /\ \A i \in 1..MaxRecv : WF_vars(peersTimeout(i))
  /\ WF_vars(Sleep)

FairHandlerSpec == HandlerSpec /\ HandlerFairness

-----------------------------------------------------------------------------
(* Properties of ping correlation, timeouts and the dedup cache *)

\* a ping whose future is unsettled and whose timeout is still armed
outstanding(i) == deferreds[i].state = "pending" /\ deferreds[i].armed

\* the entry of the pending-request map that belongs to request i, if any
entryOf(m, i) == { k \in DOMAIN m : m[k].deferred = i }

signerId(msg) == pk2id(publicKeyCreate(msg.signature))

\* C1: a pong carrying hash h resolves the outstanding ping whose datagram had
\* message hash h, with the descriptor {id of the pong's signer, address,
\* udpPort, tcpPort of the request's peer}, and settles or removes no other
\* outstanding request.
C1_PongResolvesPingOfHash ==
  [][ \A msg \in InPongs :
        onMessage(msg, PongSource, FALSE) =>
          \A i \in DOMAIN deferreds :
            IF outstanding(i) /\ deferreds[i].rkey = msg.data.hash
              THEN /\ deferreds'[i].state = "resolved"
                   /\ deferreds'[i].value =
                        [ id |-> signerId(msg),
                          address |-> deferreds[i].peer.address,
                          udpPort |-> deferreds[i].peer.udpPort,
                          tcpPort |-> deferreds[i].peer.tcpPort ]
                   /\ entryOf(requests', i) = {}
              ELSE /\ deferreds'[i] = deferreds[i]
                   /\ entryOf(requests', i) = entryOf(requests, i) ]_vars

\* C2: the future of every ping that registered a request is settled exactly
\* once: a settled future never changes again, and with timers that fire it
\* is eventually resolved or rejected.
C2_SettledExactlyOnce ==
  /\ [][ \A i \in DOMAIN deferreds :
           deferreds[i].state # "pending" =>
             /\ deferreds'[i].state = deferreds[i].state
             /\ deferreds'[i].value = deferreds[i].value
             /\ deferreds'[i].reason = deferreds[i].reason ]_vars
  /\ \A i \in 1..MaxPings :
       [](i \in DOMAIN deferreds =>
            <>(i \in DOMAIN deferreds /\ deferreds[i].state \in {"resolved", "rejected"}))

\* a pong resolved the request, and its timeout fired later without effect on
\* the future
C2_Witness ==
  \E i \in DOMAIN deferreds :
    /\ deferreds[i].state = "resolved"
    /\ deferreds[i].resolveCalls = 1
    /\ deferreds[i].rejectCalls = 1

\* C3: a ping whose timeout fires unanswered is rejected with the timeout
\* error naming address:udpPort, not before the configured timeout, and has
\* no entry in the pending-request map; when every ping has been answered or
\* has timed out the map is empty; and every ping is eventually answered or
\* timed out.
C3_TimeoutRejects ==
  /\ [](\A i \in DOMAIN deferreds :
          (~deferreds[i].armed /\ deferreds[i].state # "resolved") =>
            /\ deferreds[i].state = "rejected"
            /\ deferreds[i].reason =
                 [ message |-> "Timeout error: ping",
                   address |-> deferreds[i].peer.address,
                   udpPort |-> deferreds[i].peer.udpPort ]
            /\ now >= deferreds[i].sentAt + DEFAULT_TIMEOUT
            /\ entryOf(requests, i) = {})
  /\ []((\A i \in DOMAIN deferreds :
           deferreds[i].state = "resolved" \/ ~deferreds[i].armed) => DOMAIN requests = {})
  /\ \A i \in 1..MaxPings :
       [](i \in DOMAIN deferreds =>
            <>(i \in DOMAIN deferreds
                 /\ (deferreds[i].state = "resolved" \/ ~deferreds[i].armed)))

\* two pings were sent, none was answered, both timed out
C3_Witness ==
  /\ Len(deferreds) = 2
  /\ \A i \in DOMAIN deferreds : deferreds[i].state = "rejected" /\ ~deferreds[i].armed
  /\ DOMAIN requests = {}

\* the ping datagrams sent to the endpoint of peer no more than maxAge ago
windowPings(peer) ==
  { n \in DOMAIN sent : /\ sent[n].msg.typename = "ping"
                        /\ <<sent[n].address, sent[n].port>> = rckeyOf(peer)
                        /\ now - sent[n].at <= MAX_AGE }

\* the requests those datagrams registered
windowRequests(peer) ==
  { i \in DOMAIN deferreds : /\ rckeyOf(deferreds[i].peer) = rckeyOf(peer)
                             /\ now - deferreds[i].sentAt <= MAX_AGE }

\* no two ping datagrams go to one endpoint within maxAge of each other
oneDatagramPerWindow ==
  \A m, n \in DOMAIN sent :
    ( /\ m < n
      /\ sent[m].msg.typename = "ping" /\ sent[n].msg.typename = "ping"
      /\ sent[m].address = sent[n].address /\ sent[m].port = sent[n].port )
    => sent[n].at - sent[m].at > MAX_AGE

C5_UnmatchedPongDropped ==
  [][ \A msg \in InPongs :
        (msg.data.hash \notin DOMAIN requests /\ onMessage(msg, PongSource, FALSE)) =>
          UNCHANGED <<requests, requestsCache, deferreds, sent, emitted, peersTimers>> ]_vars

\* a pong was dropped after the only request had timed out
C5_Witness ==
  /\ last = [op |-> "case pong", error |-> "", promise |-> 0]
  /\ Len(deferreds) = 1
  /\ deferreds[1].state = "rejected"
  /\ deferreds[1].rkey \notin DOMAIN requests

-----------------------------------------------------------------------------
(* Properties of the life cycle and of inbound dispatch *)

\* C6: once the server is destroyed it stays destroyed, and every call of
\* bind, destroy, ping and findneighbours fails with 'Server already
\* destroyed', sends no datagram and adds nothing to the pending-request map
\* or the dedup cache.
C6_DestroyedServerFails ==
  [][ socket = "null" =>
        /\ socket' = "null"
        /\ ( \/ bind
             \/ destroy
             \/ \E peer \in Peers : ping(peer)
             \/ \E peer \in Peers : findneighbours(peer, TargetId) )
           => /\ last'.error = "Server already destroyed"
              /\ UNCHANGED <<sent, requests, requestsCache, deferreds>> ]_vars

\* ping was called on a destroyed server that had a request pending
C6_Witness ==
  /\ socket = "null"
  /\ last = [op |-> "ping", error |-> "Server already destroyed", promise |-> 0]
  /\ DOMAIN requests # {}
  /\ Len(sent) = 1

\* handled datagram n is a ping that the server decoded
isHandledPing(n) == validMessage(handled[n].msg) /\ handled[n].msg.typename = "ping"

\* ... from a signer the routing table does not know, declaring a udp port
isNewPeerPing(n) ==
  /\ isHandledPing(n)
  /\ ~handled[n].known
  /\ handled[n].msg.data.from.udpPort # NULL

\* the delayed peers events that handled datagram n caused
peersEventsOf(n) ==
  { e \in DOMAIN emitted : /\ emitted[e].name = "peers"
                           /\ emitted[e].timer # 0
                           /\ peersTimers[emitted[e].timer].cause = n }

\* C7: a handled ping from an unknown signer with a non-null from.udpPort
\* causes exactly one peers event, holding exactly that from endpoint, no
\* earlier than 100 ms after the ping was handled; any other handled ping
\* causes none.
C7_OnePeersEventPerNewPeer ==
  /\ [](\A n \in DOMAIN handled :
          isHandledPing(n) =>
            IF isNewPeerPing(n)
              THEN /\ Cardinality(peersEventsOf(n)) <= 1
                   /\ \A e \in peersEventsOf(n) :
                        /\ emitted[e].args = <<handled[n].msg.data.from>>
                        /\ emitted[e].at >= handled[n].at + 100
              ELSE peersEventsOf(n) = {})
  /\ \A n \in 1..MaxRecv :
       []((n \in DOMAIN handled /\ isNewPeerPing(n)) =>
            <>(n \in DOMAIN handled /\ Cardinality(peersEventsOf(n)) = 1))

\* two pings of new peers were handled and each has had its peers event
C7_Witness ==
  /\ Len(handled) = 2
  /\ \A n \in DOMAIN handled : isNewPeerPing(n) /\ Cardinality(peersEventsOf(n)) = 1

\* C8: handling a ping sends exactly one datagram, a pong to the source
\* address and port, whose hash is the first 32 bytes of the ping and whose
\* 'to' is {source address, source port, tcpPort of the ping's from}; the
\* pending-request map and the dedup cache stay as they are.
C8_PongEchoesPing ==
  [][ \A d \in PingDeliveries :
        onMessage(d[1], d[2], d[3]) =>
          /\ Len(sent') = Len(sent) + 1
          /\ SubSeq(sent', 1, Len(sent)) = sent
          /\ sent'[Len(sent')].address = d[2].address
          /\ sent'[Len(sent')].port = d[2].port
          /\ sent'[Len(sent')].msg.typename = "pong"
          /\ sent'[Len(sent')].msg.data.hash = d[1].hash
          /\ sent'[Len(sent')].msg.data.to =
               [ address |-> d[2].address, udpPort |-> d[2].port,
                 tcpPort |-> d[1].data.from.tcpPort ]
          /\ UNCHANGED <<requests, requestsCache>> ]_vars

\* a ping was answered while a request was pending and cached
C8_Witness ==
  /\ last.op = "case ping"
  /\ sent[Len(sent)].msg.typename = "pong"
  /\ sent[Len(sent)].address # sent[Len(sent)].msg.data.hash.data.from.address
  /\ DOMAIN requests # {}
  /\ requestsCache # << >>

-----------------------------------------------------------------------------
(* Properties of the handshake and of the frame codec *)

established(s) == stage[s] = "established"

\* the secrets an instance holds once _setupFrame has run
aesSecretOf(s) == the(ecies[s].ingressAes).key
macSecretOf(s) == the(ecies[s].ingressMac).secret

\* what a MAC was seeded with: its first update
macSeed(mac) == Head(the(mac).updates)

\* C9: an initiator (createAuth, parseAck) and a responder (parseAuth,
\* createAck) exchanging their messages unmodified never fail a call; an
\* established side holds frame state whose two AES streams share one key;
\* and when both are established they hold the same ephemeral shared secret,
\* the same aesSecret and macSecret, and mirrored MAC seeds.
C9_HandshakeAgrees ==
  /\ eciesLast.op \in {"createAuth", "parseAuth", "createAck", "parseAck"} => eciesLast.ok
  /\ \A s \in Sides :
       /\ stage[s] # "failed"
       /\ established(s) =>
            /\ ecies[s].ingressAes # Null /\ ecies[s].egressAes # Null
            /\ ecies[s].ingressMac # Null /\ ecies[s].egressMac # Null
            /\ the(ecies[s].egressAes).key = aesSecretOf(s)
            /\ the(ecies[s].egressMac).secret = macSecretOf(s)
  /\ (established("initiator") /\ established("responder")) =>
       /\ ecies["initiator"].ephemeralSharedSecret = ecies["responder"].ephemeralSharedSecret
       /\ aesSecretOf("initiator") = aesSecretOf("responder")
       /\ macSecretOf("initiator") = macSecretOf("responder")
       /\ macSeed(ecies["initiator"].egressMac) = macSeed(ecies["responder"].ingressMac)
       /\ macSeed(ecies["responder"].egressMac) = macSeed(ecies["initiator"].ingressMac)

\* both sides are established, from the second choice of every key and nonce
C9_Witness ==
  /\ established("initiator") /\ established("responder")
  /\ eciesLast.op = "parseAck"
  /\ ecies["initiator"].privateKey = 3
  /\ ecies["initiator"].nonce = 2
  /\ ecies["responder"].ephemeralPrivateKey = 8

\* C10: after the handshake, with frames written as createHeader(n) then
\* createBody(data) and read in the same order as parseHeader then parseBody,
\* no parse fails, every parseHeader returns n for 0 <= n <= 2^24 - 1, and
\* every parseBody of a frame with |data| = n returns exactly data.
C10_FramesRoundTrip ==
  /\ eciesLast.op \in {"parseHeader", "parseBody"} => eciesLast.ok
  /\ \A s \in Sides : \A k \in DOMAIN parsed[s] :
       /\ k \in DOMAIN written[remoteOf(s)]
       /\ written[remoteOf(s)][k].size \in 0..16777215 =>
            parsed[s][k].size = Some(written[remoteOf(s)][k].size)
       /\ ( /\ parsed[s][k].body # Null
            /\ Len(written[remoteOf(s)][k].data) = written[remoteOf(s)][k].size )
          => parsed[s][k].body = Some(plain(written[remoteOf(s)][k].data))

\* the responder read an empty frame and then a frame of 17 bytes, and the
\* initiator read a frame of 16 bytes
C10_Witness ==
  /\ Len(parsed["responder"]) = 2
  /\ parsed["responder"][1] = [size |-> Some(0), body |-> Some(plain(<< >>))]
  /\ parsed["responder"][2] = [size |-> Some(17), body |-> Some(plain(Bytes(17)))]
  /\ parsed["initiator"] = << [size |-> Some(16), body |-> Some(plain(Bytes(16)))] >>
  /\ the(ecies["initiator"].egressAes).pos = 16 + 0 + 16 + 32
  /\ the(ecies["initiator"].ingressAes).pos = 16 + 16

-----------------------------------------------------------------------------
(* Frames altered in transit *)

\* what may happen to a message between createHeader or createBody and the
\* parseHeader or parseBody of the other end
Alterations == {"none", "ciphertext", "tag"}

\* sixteen bytes that are not the sender's tag
alteredTag(mac) == [mac EXCEPT !.fn = "altered"]

\* the ciphertext with its first byte changed
alteredBytes(buf) == [buf EXCEPT !.bytes[1] = (@ + 1) % 256]

isHeaderMessage(msg) == "header" \in DOMAIN msg

ciphertextOf(msg) == IF isHeaderMessage(msg) THEN msg.header ELSE msg.body

inTransit(msg, how) ==
  IF how = "tag" THEN [msg EXCEPT !.mac = alteredTag(@)]
  ELSE IF how = "ciphertext"
    THEN IF isHeaderMessage(msg) THEN [msg EXCEPT !.header = alteredBytes(@)]
                                 ELSE [msg EXCEPT !.body = alteredBytes(@)]
  ELSE msg

\* the message as parseHeader slices it (32 bytes: 16 of header, 16 of tag)
\* and as parseBody slices it (all but the last 16 bytes, and the last 16)
asHeader(msg) == [header |-> ciphertextOf(msg), mac |-> msg.mac]
asBody(msg) == [body |-> ciphertextOf(msg), mac |-> msg.mac]

ParseOps == {"parseHeader", "parseBody"}

\* the op that reads the kind of message msg is
readerOf(msg) == IF isHeaderMessage(msg) THEN "parseHeader" ELSE "parseBody"

\* the owner of side s hands the next message, as it arrived, to parseHeader
\* or to parseBody, in whatever order and whatever the outcome of the calls
\* before; parsed[s] records each call
Deliver(s, op, how) ==
  /\ stage[s] \in {"established", "failed"}
  /\ wire[s] # << >>
  /\ how = "ciphertext" => ciphertextOf(Head(wire[s])).bytes # << >>
  /\ op = "parseHeader" => Len(ciphertextOf(Head(wire[s])).bytes) = 16
  /\ LET data == inTransit(Head(wire[s]), how)
         r == IF op = "parseHeader" THEN parseHeader(ecies[s], asHeader(data))
                                    ELSE parseBody(ecies[s], asBody(data))
     IN /\ afterParse(s, op, r, stage[s])
        /\ parsed' = [parsed EXCEPT ![s] =
                        Append(@, [op |-> op, ok |-> r.ok, error |-> r.error])]
  /\ UNCHANGED written
  /\ UNCHANGED <<dptVars, kdf>>

\* a frame without a body, and one whose body message is as long as a header
\* message
TamperFrames == { [size |-> n, data |-> Bytes(n)] : n \in {0, 16} }

\* one end writes and the other reads; which end is which is open
TamperNext ==
  \/ \E s \in Sides, frame \in TamperFrames :
        written[remoteOf(s)] = << >> /\ CreateHeader(s, frame, MaxTamperFrames)
  \/ \E s \in Sides : CreateBody(s)
  \/ \E s \in Sides, op \in ParseOps, how \in Alterations : Deliver(s, op, how)

TamperSpec == FrameInit /\ [][TamperNext]_vars

\* C11: a frame header or body whose ciphertext or tag was altered in transit
\* fails with 'Invalid MAC', and once a parseHeader or parseBody has failed no
\* later parseHeader or parseBody on that instance succeeds.
C11_AlteredFrameKillsConnection ==
  [][\A s \in Sides, op \in ParseOps, how \in Alterations :
       Deliver(s, op, how) =>
         /\ (stage[s] = "established" /\ how # "none" /\ op = readerOf(Head(wire[s])))
              => (~eciesLast'.ok /\ eciesLast'.error = "Invalid MAC")
         /\ (stage[s] = "failed") => ~eciesLast'.ok]_vars

\* the parse calls of a log that returned
okCalls(log, op) == { i \in DOMAIN log : log[i].op = op /\ log[i].ok }

\* a parseHeader has returned and no parseBody has returned since
headerParsed(log) ==
  \E i \in okCalls(log, "parseHeader") : \A j \in okCalls(log, "parseBody") : j < i

\* C12: parseBody fails with 'need to parse header first' whenever no header
\* was parsed successfully since construction or since the last successful
\* parseBody, and at no time have more parseBody calls succeeded on an
\* instance than parseHeader calls.
C12_BodyNeedsHeader ==
  /\ [][\A s \in Sides, how \in Alterations :
          (Deliver(s, "parseBody", how) /\ ~headerParsed(parsed[s]))
            => (~eciesLast'.ok /\ eciesLast'.error = "need to parse header first")]_vars
  /\ [](\A s \in Sides :
          Cardinality(okCalls(parsed[s], "parseBody"))
            <= Cardinality(okCalls(parsed[s], "parseHeader")))

\* a header and its body were parsed, and the parseBody called next, without
\* a header before it, failed for that reason
C12_Witness ==
  /\ eciesLast.op = "parseBody"
  /\ eciesLast.error = "need to parse header first"
  /\ okCalls(parsed[eciesLast.side], "parseBody") # {}
  /\ ~headerParsed(parsed[eciesLast.side])

-----------------------------------------------------------------------------
(* The eight methods of an instance called in any order *)

\* the order in which the owner of an instance is meant to call its methods:
\* createAuth then parseAck, or parseAuth then createAck, and the frame
\* methods after either
inOrder(at, op) ==
  CASE op = "createAuth" -> at = "idle"
    [] op = "parseAuth"  -> at = "idle"
    [] op = "createAck"  -> at = "receivedAuth"
    [] op = "parseAck"   -> at = "sentAuth"
    [] OTHER             -> at = "established"

stageAfter(at, op) ==
  CASE op = "createAuth" -> "sentAuth"
    [] op = "parseAuth"  -> "receivedAuth"
    [] op = "createAck"  -> "established"
    [] op = "parseAck"   -> "established"
    [] OTHER             -> at

\* an auth or ack message, as against a frame message
isHandshakeMessage(msg) == "tag" \in DOMAIN msg

\* an auth or ack message as it arrives
handshakeInTransit(msg, how) ==
  IF how = "tag" THEN [msg EXCEPT !.tag = alteredTag(@)] ELSE msg

HandshakeAlterations == {"none", "tag"}

\* an instance that is no longer where the order above puts it
OffOrder == {"failed", "strayed"}

\* one end at most leaves the order: a call out of order is made on an
\* instance only while the other end has kept to it
mayCall(s, op) == inOrder(stage[s], op) \/ stage[remoteOf(s)] \notin OffOrder

\* the instance of side s after a call of op, and how far its handshake is:
\* a call in order that returns moves it on, a parseAuth or parseAck in order
\* that throws makes it "failed", a call out of order makes it "strayed"
called(s, op, r) ==
  /\ mayCall(s, op)
  /\ ecies' = [ecies EXCEPT ![s] = r.e]
  /\ stage' = [stage EXCEPT ![s] =
                 IF @ \in OffOrder THEN @
                 ELSE IF ~inOrder(@, op) THEN "strayed"
                 ELSE IF r.ok THEN stageAfter(@, op)
                 ELSE IF op \in {"parseAuth", "parseAck"} THEN "failed"
                 ELSE @]
  /\ eciesLast' = [op |-> op, side |-> s, ok |-> r.ok, error |-> r.error]

\* what a create call puts on the wire to the other end
put(s, r) ==
  wire' = IF r.ok /\ r.out # Null
            THEN [wire EXCEPT ![remoteOf(s)] = Append(@, the(r.out))]
            ELSE wire

\* what a parse call leaves on the wire: the network may deliver the first
\* message once more
taken(s, again) == wire' = IF again THEN wire ELSE [wire EXCEPT ![s] = Tail(@)]

AnyCreateAuth(s, privateKey, IV) ==
  /\ Len(wire[remoteOf(s)]) < MaxInFlight
  /\ LET r == createAuth(ecies[s], privateKey, IV)
     IN called(s, "createAuth", r) /\ put(s, r)
  /\ UNCHANGED <<written, parsed>>
  /\ UNCHANGED <<dptVars, kdf>>

AnyCreateAck(s, privateKey, IV) ==
  /\ Len(wire[remoteOf(s)]) < MaxInFlight
  /\ LET r == createAck(ecies[s], privateKey, IV)
     IN called(s, "createAck", r) /\ put(s, r)
  /\ UNCHANGED <<written, parsed>>
  /\ UNCHANGED <<dptVars, kdf>>

AnyParseAuth(s, how, again) ==
  /\ wire[s] # << >>
  /\ isHandshakeMessage(Head(wire[s]))
  /\ LET r == parseAuth(ecies[s], handshakeInTransit(Head(wire[s]), how))
     IN called(s, "parseAuth", r) /\ taken(s, again)
  /\ UNCHANGED <<written, parsed>>
  /\ UNCHANGED <<dptVars, kdf>>

AnyParseAck(s, how, again) ==
  /\ wire[s] # << >>
  /\ isHandshakeMessage(Head(wire[s]))
  /\ LET r == parseAck(ecies[s], handshakeInTransit(Head(wire[s]), how))
     IN called(s, "parseAck", r) /\ taken(s, again)
  /\ UNCHANGED <<written, parsed>>
  /\ UNCHANGED <<dptVars, kdf>>

AnyCreateHeader(s, frame) ==
  /\ Len(wire[remoteOf(s)]) < MaxInFlight
  /\ framesWritten < MaxAnyOrderFrames
  /\ LET r == createHeader(ecies[s], frame.size)
     IN called(s, "createHeader", r) /\ put(s, r)
  /\ written' = [written EXCEPT ![s] = Append(@, [ size |-> frame.size, data |-> frame.data,
                                                   body |-> FALSE ])]
  /\ UNCHANGED parsed
  /\ UNCHANGED <<dptVars, kdf>>

AnyCreateBody(s, frame) ==
  /\ Len(wire[remoteOf(s)]) < MaxInFlight
  /\ framesWritten < MaxAnyOrderFrames
  /\ LET r == createBody(ecies[s], frame.data)
     IN called(s, "createBody", r) /\ put(s, r)
  /\ written' = [written EXCEPT ![s] = Append(@, [ size |-> frame.size, data |-> frame.data,
                                                   body |-> TRUE ])]
  /\ UNCHANGED parsed
  /\ UNCHANGED <<dptVars, kdf>>

AnyParseHeader(s) ==
  /\ wire[s] # << >>
  /\ ~isHandshakeMessage(Head(wire[s]))
  /\ Len(ciphertextOf(Head(wire[s])).bytes) = 16
  /\ LET r == parseHeader(ecies[s], asHeader(Head(wire[s])))
     IN called(s, "parseHeader", r) /\ taken(s, FALSE)
  /\ UNCHANGED <<written, parsed>>
  /\ UNCHANGED <<dptVars, kdf>>

AnyParseBody(s) ==
  /\ wire[s] # << >>
  /\ ~isHandshakeMessage(Head(wire[s]))
  /\ LET r == parseBody(ecies[s], asBody(Head(wire[s])))
     IN called(s, "parseBody", r) /\ taken(s, FALSE)
  /\ UNCHANGED <<written, parsed>>
  /\ UNCHANGED <<dptVars, kdf>>

AnyOrderInit ==
  /\ DptInit
  /\ EciesInit(3, 4, 6, 8, 2, 3)

AnyOrderNext ==
  \/ \E s \in Sides, k \in MessageKeys, IV \in MessageIVs : AnyCreateAuth(s, k, IV)
  \/ \E s \in Sides, how \in HandshakeAlterations, again \in BOOLEAN :
       AnyParseAuth(s, how, again)
  \/ \E s \in Sides, k \in MessageKeys, IV \in MessageIVs : AnyCreateAck(s, k, IV)
  \/ \E s \in Sides, how \in HandshakeAlterations, again \in BOOLEAN :
       AnyParseAck(s, how, again)
  \/ \E s \in Sides, frame \in TamperFrames : AnyCreateHeader(s, frame)
  \/ \E s \in Sides, frame \in TamperFrames : AnyCreateBody(s, frame)
  \/ \E s \in Sides : AnyParseHeader(s)
  \/ \E s \in Sides : AnyParseBody(s)

AnyOrderSpec == AnyOrderInit /\ [][AnyOrderNext]_vars

\* the AES streams and MACs that _setupFrame installs
FrameFields == {"ingressAes", "egressAes", "ingressMac", "egressMac"}

frameless(e) == \A f \in FrameFields : e[f] = Null

\* C13: once parseAuth or parseAck has failed one of its checks the handshake
\* of that instance has failed for good: whatever is called on it afterwards,
\* it is never established and never holds frame state.
C13_FailedHandshakeIsTerminal ==
  \A s \in Sides : stage[s] = "failed" => frameless(ecies[s])

-----------------------------------------------------------------------------
(* Timers, destroy and the dedup window *)

\* C14: the pong that matches a request cancels the request's timeout: once
\* the pong has resolved the request its timer never fires, so that there is
\* no later deletion from the pending-request map and no later reject on the
\* resolved future.
C14_PongCancelsTimeout ==
  [][ \A i \in DOMAIN deferreds :
        deferreds[i].state = "resolved" =>
          /\ ~pingTimeout(i)
          /\ deferreds'[i].rejectCalls = deferreds[i].rejectCalls ]_vars

\* C15: a ping timeout touches only its own request: when the timer of
\* request i fires, no other request's future is settled or called, and no
\* other request's entry leaves the pending-request map, also when a later
\* ping with the same message hash has replaced the entry.
C15_TimeoutTouchesOwnRequestOnly ==
  [][ \A i \in 1..MaxPings :
        pingTimeout(i) =>
          \A j \in DOMAIN deferreds \ {i} :
            /\ deferreds'[j] = deferreds[j]
            /\ entryOf(requests', j) = entryOf(requests, j) ]_vars

\* C16: destroy releases the request state: on a destroyed server the
\* pending-request map and the dedup cache are empty, and no ping timeout
\* that was armed before destroy fires.
C16_DestroyReleasesRequests ==
  [][ /\ socket' = "null" => (DOMAIN requests' = {} /\ requestsCache' = << >>)
      /\ socket = "null" => \A i \in 1..MaxPings : ~pingTimeout(i) ]_vars

\* C19: at any time at most one ping per endpoint (address, udpPort) is in
\* flight, that is unsettled with its timeout armed, however much time has
\* passed since it was sent.
C19_OnePingInFlightPerEndpoint ==
  \A i, j \in DOMAIN deferreds :
    (/\ outstanding(i)
     /\ outstanding(j)
     /\ rckeyOf(deferreds[i].peer) = rckeyOf(deferreds[j].peer)) => i = j

-----------------------------------------------------------------------------
(* The streams and MACs of an instance over any sequence of calls *)

\* stream b is stream a, where it was or further on
streamContinues(a, b) == b # Null /\ the(b).key = the(a).key /\ the(b).IV = the(a).IV
                                  /\ the(b).pos >= the(a).pos

\* MAC b is MAC a after zero or more updates
macContinues(a, b) ==
  /\ b # Null
  /\ the(b).secret = the(a).secret
  /\ Len(the(b).updates) >= Len(the(a).updates)
  /\ SubSeq(the(b).updates, 1, Len(the(a).updates)) = the(a).updates

\* C17: once an instance holds frame state no call of any of its eight
\* methods re-instantiates or rewinds a stream or a MAC: each AES stream
\* keeps its key and its position never decreases, and each MAC only absorbs
\* more.
C17_StreamsNeverRewind ==
  [][ \A s \in Sides :
        /\ ecies[s].ingressAes # Null
             => streamContinues(ecies[s].ingressAes, ecies'[s].ingressAes)
        /\ ecies[s].egressAes # Null
             => streamContinues(ecies[s].egressAes, ecies'[s].egressAes)
        /\ ecies[s].ingressMac # Null
             => macContinues(ecies[s].ingressMac, ecies'[s].ingressMac)
        /\ ecies[s].egressMac # Null
             => macContinues(ecies[s].egressMac, ecies'[s].egressMac) ]_vars

\* C18: the handshake of an instance moves only idle, sentAuth, established
\* or idle, receivedAuth, established; a method called on an instance out of
\* that order fails and leaves its AES streams and MACs as they were, so that
\* the frame methods succeed only on an established instance.
C18_OutOfOrderCallsFail ==
  [][ \A s \in Sides :
        (/\ eciesLast'.side = s
         /\ stage[s] \notin OffOrder
         /\ ~inOrder(stage[s], eciesLast'.op))
          => /\ ~eciesLast'.ok
             /\ \A f \in FrameFields : ecies'[s][f] = ecies[s][f] ]_vars

-----------------------------------------------------------------------------
(* concatKDF on its own *)

\* the arguments concatKDF is called with: shared secrets, and key lengths on
\* both sides of one SHA-256 output
KeyMaterials == 1..4
KeyLengths == 1..64

KdfInit ==
  /\ DptInit
  /\ NoConnection
  /\ \E keyMaterial \in KeyMaterials, keyLength \in KeyLengths :
       kdf = [keyMaterial |-> keyMaterial, keyLength |-> keyLength, key |-> Null]

\* the call concatKDF(keyMaterial, keyLength)
Derive ==
  /\ kdf.key = Null
  /\ kdf' = [kdf EXCEPT !.key = Some(concatKDF(kdf.keyMaterial, kdf.keyLength))]
  /\ UNCHANGED <<ecies, stage, wire, written, parsed, eciesLast>>
  /\ UNCHANGED dptVars

KdfSpec == KdfInit /\ [][Derive]_vars

\* C20: for a key length L from 1 to 32, concatKDF(Z, L) hashes once, with
\* counter 1, and returns L bytes: the first L bytes of SHA256(be32(1) || Z).
C20_OneRoundUpTo32 ==
  (kdf.key # Null /\ kdf.keyLength \in 1..32) =>
    /\ Len(the(kdf.key).blocks) = 1
    /\ the(kdf.key).blocks[1] = sha256(<<1, kdf.keyMaterial>>)
    /\ the(kdf.key).lo = 0
    /\ the(kdf.key).hi = kdf.keyLength

\* concatKDF(Z, 32) has returned the whole of SHA256(be32(1) || Z)
C20_Witness ==
  /\ kdf.keyLength = 32
  /\ kdf.key = Some([blocks |-> <<sha256(<<1, kdf.keyMaterial>>)>>, lo |-> 0, hi |-> 32])

=============================================================================
